---- MODULE Spec2Model ----
(***************************************************************************)
(* Model of the GLODAP data-preparation scripts:                           *)
(*   obs_to_model.py  create_monthly_mask, create_monthly_mask2,           *)
(*                    match_ungridded_to_gridded                           *)
(*   GLODAP.py        get_GLODAP (quality filter), process_GLODAP          *)
(*                                                                         *)
(* Numbers.  A float64 array element is modelled exactly, as <<n, d, k>>   *)
(* standing for the k-th root of the reduced fraction n/d (k = 1 for a     *)
(* plain rational, k = 2 for an irrational square root), or as NaN.        *)
(* Latitudes and longitudes are counted in tenths of a degree and the     *)
(* latitude/longitude axes have even gaps, so that the float halving of an *)
(* axis gap in make_bins is exact, as it is in float64.  Timestamps are    *)
(* datetime64 values, i.e. int64 counts of a time unit: numpy divides a    *)
(* timedelta64 by an integer with truncation, and so does the model.       *)
(***************************************************************************)
EXTENDS Integers, Sequences, FiniteSets, TLC

VARIABLES
    variable,    \* matcher input: the flat sequence of measurement values
    name,        \* matcher input: variable.name, or "noattr" when it has none
    time,        \* matcher input: timestamps of the points
    time_dtype,  \* matcher input: dtype of `time`
    lat,         \* matcher input: latitudes of the points
    lon,         \* matcher input: longitudes of the points
    xda,         \* the target frame (template DataArray)
    dates,       \* create_monthly_mask argument <<start, end>>, each <<year, month>>
    tbins, ybins, xbins,   \* the bin edges computed by the last matcher call
    tidx, yidx, xidx,      \* the bin index of every point (pd.cut)
    xds,         \* the Dataset returned by the last matcher call (<<>>: none)
    err,         \* the exception that ended the last call ("none": returned)
    calls,       \* number of matcher calls made
    archive,     \* get_GLODAP: rows of the merged master file
    gds,         \* get_GLODAP: rows written to the subset CSV
    gd,          \* process_GLODAP: rows read from the subset CSV
    surface_depth, \* process_GLODAP argument
    gd_dated,    \* process_GLODAP: the rows handed to pd.to_datetime
    gd_sub,      \* process_GLODAP: returned rows
    pc           \* position of the script being run

vars == <<variable, name, time, time_dtype, lat, lon, xda, dates, tbins, ybins,
          xbins, tidx, yidx, xidx, xds, err, calls, archive, gds, gd,
          surface_depth, gd_dated, gd_sub, pc>>

matcherInputs == <<variable, name, time, time_dtype, lat, lon>>
matcherLocals == <<tbins, ybins, xbins, tidx, yidx, xidx, xds, err, calls>>
glodapVars == <<archive, gds, gd, surface_depth, gd_dated, gd_sub>>

-----------------------------------------------------------------------------
(* Bounds of the model *)

MaxPoints == 2
MaxCalls == 2
MaxRows == 2

-----------------------------------------------------------------------------
(* float64 / NaN arithmetic *)

NaN == <<>>

IsNaN(v) == v = NaN

Abs(i) == IF i < 0 THEN -i ELSE i

RECURSIVE Gcd(_, _)
Gcd(a, b) == IF b = 0 THEN a ELSE Gcd(b, a % b)

\* the rational n/d (d > 0) in lowest terms
Rat(n, d) ==
    LET g == Gcd(Abs(n), d)
    IN  <<n \div g, d \div g, 1>>

RAdd(p, q) == Rat(p[1] * q[2] + q[1] * p[2], p[2] * q[2])
RSub(p, q) == Rat(p[1] * q[2] - q[1] * p[2], p[2] * q[2])
RMul(p, q) == Rat(p[1] * q[1], p[2] * q[2])
RDivInt(p, m) == Rat(p[1], p[2] * m)

\* square root of a non-negative rational: rational when numerator and
\* denominator are perfect squares, otherwise kept as a radical
Sqrt(p) ==
    IF (\E a \in 0..p[1] : a * a = p[1]) /\ (\E b \in 1..p[2] : b * b = p[2])
    THEN <<CHOOSE a \in 0..p[1] : a * a = p[1],
           CHOOSE b \in 1..p[2] : b * b = p[2], 1>>
    ELSE <<p[1], p[2], 2>>

\* x * np.nan
MulNaN(x) == NaN

Range(s) == {s[i] : i \in DOMAIN s}

-----------------------------------------------------------------------------
(* obs_to_model.py: match_ungridded_to_gridded *)

\* a DataArray over (time, lat, lon): its axes, and its values as a fill
\* value plus the cells written individually (cell indices are 0-based)
DataArray(nm, dims, t, y, x, fill, cells) ==
    [name |-> nm, dims |-> dims, time |-> t, lat |-> y, lon |-> x,
     fill |-> fill, cells |-> cells]

NoCells == [c \in {} |-> NaN]

\* value of cell c of DataArray a
At(a, c) == IF c \in DOMAIN a.cells THEN a.cells[c] ELSE a.fill

\* every cell index of DataArray a
Cells(a) ==
    (0..(Len(a.time) - 1)) \X (0..(Len(a.lat) - 1)) \X (0..(Len(a.lon) - 1))

\* np.diff(dim) (xda.<axis>.diff(<axis>))
np_diff(dim) == [i \in 1..(Len(dim) - 1) |-> dim[i + 1] - dim[i]]

\* all(xda.<axis>.diff(<axis>) >= 0): equal neighbours pass
non_decreasing(dim) == \A i \in DOMAIN np_diff(dim) : np_diff(dim)[i] >= 0

\* all(xda.<axis>.diff(<axis>) > 0)
strictly_increasing(dim) == \A i \in DOMAIN np_diff(dim) : np_diff(dim)[i] > 0

\* the asserts at the head of match_ungridded_to_gridded; any of them
\* failing ends the call before make_bins
preconditions(fr, tdtype) ==
    /\ \A key \in {"time", "lat", "lon"} : key \in Range(fr.dims)
    /\ strictly_increasing(fr.time)
    /\ strictly_increasing(fr.lat)
    /\ strictly_increasing(fr.lon)
    /\ tdtype = "datetime64"

\* np.diff(dim) / 2.  The gaps are positive here; a timedelta64 gap is
\* halved with truncation, a float gap (an even count of tenths of a degree)
\* exactly.
half_gaps(dim) == [i \in DOMAIN np_diff(dim) |-> np_diff(dim)[i] \div 2]

\* make_bins(dim): delta[0] raises IndexError when dim holds one value
make_bins(dim) ==
    LET delta == half_gaps(dim)
        n == Len(dim)
    IN  IF Len(delta) = 0
        THEN [err |-> "IndexError", bins |-> <<>>]
        ELSE [err |-> "none",
              bins |-> <<dim[1] - delta[1]>>
                       \o [i \in 1..(n - 1) |-> dim[i + 1] - delta[i]]
                       \o <<dim[n] + delta[n - 1]>>]

\* bins.searchsorted(x, side='left'): the number of edges below x
searchsorted_left(bins, x) == Cardinality({j \in DOMAIN bins : bins[j] < x})

\* pd.cut(x, bins, labels=arange(N)): right-closed intervals
\* (bins[i], bins[i+1]], include_lowest=False; NaN outside; ValueError on
\* decreasing or duplicate edges
pd_cut(x, bins) ==
    IF \/ \E j \in 1..(Len(bins) - 1) : bins[j + 1] < bins[j]
       \/ (Cardinality(Range(bins)) < Len(bins) /\ Len(bins) # 2)
    THEN [err |-> "ValueError", codes |-> <<>>]
    ELSE [err |-> "none",
          codes |-> [k \in DOMAIN x |->
                       LET ids == searchsorted_left(bins, x[k])
                       IN  IF ids = 0 \/ ids = Len(bins)
                           THEN NaN
                           ELSE <<ids - 1>>]]

\* groupby([tidx, yidx, xidx]): rows with a NaN key are left out
in_a_group(ti, yi, xi, k) == ~IsNaN(ti[k]) /\ ~IsNaN(yi[k]) /\ ~IsNaN(xi[k])

group_key(ti, yi, xi, k) == <<ti[k][1], yi[k][1], xi[k][1]>>

group_keys(ti, yi, xi) ==
    {group_key(ti, yi, xi, k) : k \in {j \in DOMAIN ti : in_a_group(ti, yi, xi, j)}}

group_members(ti, yi, xi, c) ==
    {k \in DOMAIN ti : in_a_group(ti, yi, xi, k) /\ group_key(ti, yi, xi, k) = c}

\* sum of f[k] over the members, in row order
RECURSIVE sum_rows(_, _, _)
sum_rows(f, members, n) ==
    IF n = 0 THEN Rat(0, 1)
    ELSE IF n \in members
         THEN RAdd(sum_rows(f, members, n - 1), f[n])
         ELSE sum_rows(f, members, n - 1)

\* agg 'mean' of one group
group_mean(v, members) ==
    RDivInt(sum_rows([k \in DOMAIN v |-> Rat(v[k], 1)], members, Len(v)),
            Cardinality(members))

\* ddof=0: the population standard deviation
std_denominator_population(members) == Cardinality(members)

\* the denominator of agg 'std' (pandas: ddof=1)
std_denominator(members) == Cardinality(members) - 1

\* agg 'std' of one group: sample standard deviation, NaN for one member
group_std(v, members) ==
    LET m == group_mean(v, members)
        sq == [k \in DOMAIN v |->
                 RMul(RSub(Rat(v[k], 1), m), RSub(Rat(v[k], 1), m))]
    IN  IF std_denominator(members) <= 0
        THEN NaN
        ELSE Sqrt(RDivInt(sum_rows(sq, members, Len(v)), std_denominator(members)))

\* getattr(variable, 'name', 'out')
out_name(nm) == IF nm = "noattr" THEN "out" ELSE nm

\* xda.copy() * np.nan, renamed
nan_like(fr, nm) ==
    DataArray(nm, fr.dims, fr.time, fr.lat, fr.lon, MulNaN(fr.fill),
              [c \in DOMAIN fr.cells |-> MulNaN(fr.cells[c])])

\* xds[name].values[it, iy, ix] = df[col]
scatter(a, keys, col) ==
    [a EXCEPT !.cells = [c \in (DOMAIN a.cells) \cup keys |->
                           IF c \in keys THEN col[c] ELSE a.cells[c]]]

\* xda1 = xda without a copy: the scatter writes into the frame itself
frame_aliased_by_output(fr, ds) ==
    IF ds = <<>> THEN fr
    ELSE [fr EXCEPT !.fill = ds[1].fill, !.cells = ds[1].cells]

\* the frame object after a call: the outputs are built from copies, the
\* frame itself is only read
frame_after_call(fr, ds) == fr

\* the local values and the outcome of one call
Outcome(e, tb, yb, xb, ti, yi, xi, ds) ==
    [err |-> e, tbins |-> tb, ybins |-> yb, xbins |-> xb,
     tidx |-> ti, yidx |-> yi, xidx |-> xi, xds |-> ds]

match_ungridded_to_gridded(v, nm, tm, tdtype, la, lo, fr) ==
    IF ~preconditions(fr, tdtype)
    THEN Outcome("AssertionError", <<>>, <<>>, <<>>, <<>>, <<>>, <<>>, <<>>)
    ELSE
    LET tb == make_bins(fr.time)
        yb == make_bins(fr.lat)
        xb == make_bins(fr.lon)
    IN
    IF tb.err # "none"
    THEN Outcome(tb.err, <<>>, <<>>, <<>>, <<>>, <<>>, <<>>, <<>>)
    ELSE IF yb.err # "none"
    THEN Outcome(yb.err, tb.bins, <<>>, <<>>, <<>>, <<>>, <<>>, <<>>)
    ELSE IF xb.err # "none"
    THEN Outcome(xb.err, tb.bins, yb.bins, <<>>, <<>>, <<>>, <<>>, <<>>)
    ELSE
    LET ti == pd_cut(tm, tb.bins)
        yi == pd_cut(la, yb.bins)
        xi == pd_cut(lo, xb.bins)
    IN
    IF ti.err # "none"
    THEN Outcome(ti.err, tb.bins, yb.bins, xb.bins, <<>>, <<>>, <<>>, <<>>)
    ELSE IF yi.err # "none"
    THEN Outcome(yi.err, tb.bins, yb.bins, xb.bins, ti.codes, <<>>, <<>>, <<>>)
    ELSE IF xi.err # "none"
    THEN Outcome(xi.err, tb.bins, yb.bins, xb.bins, ti.codes, yi.codes, <<>>, <<>>)
    ELSE
    LET keys == group_keys(ti.codes, yi.codes, xi.codes)
        grp(c) == group_members(ti.codes, yi.codes, xi.codes, c)
        mean == [c \in keys |-> group_mean(v, grp(c))]
        std == [c \in keys |-> group_std(v, grp(c))]
        xda1 == nan_like(fr, <<out_name(nm), "_mean">>)
        xda2 == nan_like(fr, <<out_name(nm), "_std">>)
    IN  Outcome("none", tb.bins, yb.bins, xb.bins, ti.codes, yi.codes, xi.codes,
                <<scatter(xda1, keys, mean), scatter(xda2, keys, std)>>)

-----------------------------------------------------------------------------
(* obs_to_model.py: create_monthly_mask, create_monthly_mask2 *)

IsLeap(y) == (y % 4 = 0 /\ y % 100 # 0) \/ y % 400 = 0

DaysInMonth(y, m) ==
    IF m = 2 THEN (IF IsLeap(y) THEN 29 ELSE 28)
    ELSE IF m \in {4, 6, 9, 11} THEN 30 ELSE 31

\* days from 1982-01-01 to the first day of month m of year y (y >= 1982)
RECURSIVE MonthStart(_, _)
MonthStart(y, m) ==
    IF y = 1982 /\ m = 1 THEN 0
    ELSE IF m = 1 THEN MonthStart(y - 1, 12) + 31
    ELSE MonthStart(y, m - 1) + DaysInMonth(y, m - 1)

\* a timestamp, in half days since 1982-01-01T00:00
Timestamp(y, m, d, halfday) == 2 * (MonthStart(y, m) + d - 1) + halfday

\* the months from start to end, both included
RECURSIVE MonthsFrom(_, _)
MonthsFrom(start, end) ==
    IF start[1] > end[1] \/ (start[1] = end[1] /\ start[2] > end[2])
    THEN <<>>
    ELSE <<start>> \o MonthsFrom(IF start[2] = 12 THEN <<start[1] + 1, 1>>
                                 ELSE <<start[1], start[2] + 1>>, end)

\* pd.date_range(start, end, freq='MS') + np.timedelta64(14, 'D')
monthly_time(ds) ==
    LET months == MonthsFrom(ds[1], ds[2])
    IN  [i \in DOMAIN months |-> Timestamp(months[i][1], months[i][2], 1, 0) + 2 * 14]

\* np.arange(first, stop, 1) in tenths of a degree
np_arange(first, stop) == [i \in 1..((stop - first + 9) \div 10) |-> first + 10 * (i - 1)]

create_monthly_mask(ds) ==
    DataArray(<<>>, <<"time", "lat", "lon">>, monthly_time(ds),
              np_arange(-895, 900), np_arange(5, 3600), Rat(0, 1), NoCells)

create_monthly_mask2(ds) ==
    DataArray(<<>>, <<"time", "lat", "lon">>, monthly_time(ds),
              np_arange(-895, 900), np_arange(-1795, 1800), Rat(0, 1), NoCells)

-----------------------------------------------------------------------------
(* Inputs of the matcher *)

AllDims == <<"time", "lat", "lon">>

\* the frame of the worked example: lat = [-1, 0, 1]
RegularFrame ==
    DataArray(<<>>, AllDims, <<2, 6>>, <<-10, 0, 10>>, <<1, 3>>, Rat(0, 1), NoCells)

DimChoices == {AllDims, <<"lat", "lon">>, <<"time", "lon">>, <<"time", "lat">>}
TimeAxes == {<<2, 6>>, <<2, 5>>, <<2, 3>>, <<2>>, <<6, 2>>, <<2, 2>>}
LatAxes == {<<-10, 0, 10>>, <<0>>, <<0, 0>>, <<10, 0, -10>>}
LonAxes == {<<1, 3>>, <<3, 1>>, <<1>>}

\* frames with every dimension and any axes, and the regular frame with one
\* dimension (and its coordinate) missing
Frames ==
    {DataArray(<<>>, AllDims, t, y, x, Rat(0, 1), NoCells) :
        t \in TimeAxes, y \in LatAxes, x \in LonAxes}
    \cup
    {DataArray(<<>>, d,
               IF "time" \in Range(d) THEN RegularFrame.time ELSE <<>>,
               IF "lat" \in Range(d) THEN RegularFrame.lat ELSE <<>>,
               IF "lon" \in Range(d) THEN RegularFrame.lon ELSE <<>>,
               Rat(0, 1), NoCells) : d \in DimChoices}

Values == {1, 3}
PointTimes == {4, 9}
PointLats == {-15, 4, 15}
PointLons == {0, 3}
Names == {"spco2", "noattr"}
TimeDtypes == {"datetime64", "float64", "object"}

MatcherIdle ==
    /\ tbins = <<>> /\ ybins = <<>> /\ xbins = <<>>
    /\ tidx = <<>> /\ yidx = <<>> /\ xidx = <<>>
    /\ xds = <<>> /\ err = "none" /\ calls = 0

GlodapIdle ==
    /\ archive = <<>> /\ gds = <<>> /\ gd = <<>>
    /\ surface_depth = 20 /\ gd_dated = <<>> /\ gd_sub = <<>>

\* the points are parallel sequences of equal length
Points(n) ==
    \E k \in 1..n :
        /\ variable \in [1..k -> Values]
        /\ time \in [1..k -> PointTimes]
        /\ lat \in [1..k -> PointLats]
        /\ lon \in [1..k -> PointLons]

Init ==
    /\ \/ /\ xda = RegularFrame
          /\ time_dtype = "datetime64"
          /\ Points(MaxPoints)
       \/ /\ xda \in Frames
          /\ time_dtype \in TimeDtypes
          /\ Points(1)
    /\ name \in Names
    /\ dates = <<>>
    /\ MatcherIdle
    /\ GlodapIdle
    /\ pc = "match"

\* one call of match_ungridded_to_gridded(variable, time, lat, lon, xda)
Match ==
    /\ pc = "match"
    /\ calls < MaxCalls
    /\ LET r == match_ungridded_to_gridded(variable, name, time, time_dtype,
                                           lat, lon, xda)
       IN  /\ tbins' = r.tbins /\ ybins' = r.ybins /\ xbins' = r.xbins
           /\ tidx' = r.tidx /\ yidx' = r.yidx /\ xidx' = r.xidx
           /\ xds' = r.xds
           /\ err' = r.err
           /\ xda' = frame_after_call(xda, r.xds)
    /\ calls' = calls + 1
    /\ UNCHANGED <<matcherInputs, dates, glodapVars, pc>>

Next == Match

Spec == Init /\ [][Next]_vars

-----------------------------------------------------------------------------
(* A monthly template and one observation *)

TemplateDates ==
    {<<<<1982, 1>>, <<1982, 2>>>>, <<<<1983, 11>>, <<1984, 3>>>>}

\* the half-day timestamps of the calendar months the template covers
CoveredTimes(ds) ==
    LET months == MonthsFrom(ds[1], ds[2])
        last == months[Len(months)]
    IN  Timestamp(ds[1][1], ds[1][2], 1, 0) ..
        Timestamp(last[1], last[2], DaysInMonth(last[1], last[2]), 1)

NoFrame == DataArray(<<>>, <<>>, <<>>, <<>>, <<>>, NaN, NoCells)

InitMonthly ==
    /\ dates \in TemplateDates
    /\ xda = NoFrame
    /\ variable = <<1>>
    /\ name = "spco2"
    /\ time \in [1..1 -> CoveredTimes(dates)]
    /\ time_dtype = "datetime64"
    /\ lat = <<4>>
    /\ lon = <<5>>
    /\ MatcherIdle
    /\ GlodapIdle
    /\ pc = "mask"

\* xda = create_monthly_mask(dates)
CreateMask ==
    /\ pc = "mask"
    /\ xda' = create_monthly_mask(dates)
    /\ pc' = "match"
    /\ UNCHANGED <<matcherInputs, dates, matcherLocals, glodapVars>>

\* xda = create_monthly_mask2(dates)
CreateMask2 ==
    /\ pc = "mask"
    /\ xda' = create_monthly_mask2(dates)
    /\ pc' = "match"
    /\ UNCHANGED <<matcherInputs, dates, matcherLocals, glodapVars>>

NextMonthly == CreateMask \/ CreateMask2 \/ Match

SpecMonthly == InitMonthly /\ [][NextMonthly]_vars

-----------------------------------------------------------------------------
(* GLODAP.py: get_GLODAP, the quality filter *)

\* the flagged measurements and their flag columns (lines 88-93)
FlagOf ==
    [phtsinsitutp |-> "phtsinsitutpf", tco2 |-> "tco2f", talk |-> "talkf",
     salinity |-> "salinityf", phosphate |-> "phosphatef",
     silicate |-> "silicatef"]

FlaggedCols == DOMAIN FlagOf
FlagCols == {FlagOf[c] : c \in FlaggedCols}

\* dropna(subset=...) (lines 101-102)
RequiredCols ==
    {"phtsinsitutp", "tco2", "talk", "temperature", "salinity", "pressure",
     "silicate", "phosphate"}

ArchiveCols == RequiredCols \cup FlagCols

\* the flag of good data (flag == 2)
GoodFlag == 2

\* the missing-value sentinel of the archive
Sentinel == -9999

\* gd.replace(-9999, np.nan) on one cell; a present cell v is <<v>>
replace_sentinel(x) == IF x = Sentinel THEN NaN ELSE <<x>>

\* a flag test that lets a missing flag pass
flag_is_bad_unless_missing(f) == f # <<GoodFlag>> /\ f # NaN

\* the flag test `gd.<flag> != 2` on one cell (NaN != 2 is True)
flag_is_bad(f) == f # <<GoodFlag>>

\* gd.loc[gd.<flag> != 2, <col>] = np.nan, for the six pairs, on one row
null_flagged(row) ==
    [c \in DOMAIN row |->
        IF c \in FlaggedCols /\ flag_is_bad(row[FlagOf[c]]) THEN NaN ELSE row[c]]

\* the rows of a table (a sequence) that satisfy keep, in order
RECURSIVE FilterRows(_, _, _)
FilterRows(rows, keep, n) ==
    IF n = 0 THEN <<>>
    ELSE IF keep[n]
         THEN Append(FilterRows(rows, keep, n - 1), rows[n])
         ELSE FilterRows(rows, keep, n - 1)

\* gd.dropna(subset=cols)
dropna(rows, cols) ==
    FilterRows(rows, [i \in DOMAIN rows |-> \A c \in cols : rows[i][c] # NaN],
               Len(rows))

\* the table after reading: sentinel replaced, bad data nulled
quality_filtered(raw) ==
    [i \in DOMAIN raw |->
        null_flagged([c \in DOMAIN raw[i] |-> replace_sentinel(raw[i][c])])]

\* gd.loc[:, [...]]: the flag columns are not kept
select_subset(rows) ==
    [i \in DOMAIN rows |-> [c \in RequiredCols |-> rows[i][c]]]

\* the rows get_GLODAP writes to GLODAPv2_pH_DIC_ALK_subset.csv
get_GLODAP(raw) == select_subset(dropna(quality_filtered(raw), RequiredCols))

GoodRow == [c \in ArchiveCols |-> IF c \in FlagCols THEN GoodFlag ELSE 10]

\* archive rows: good data, with any one cell, or the value and the flag of
\* one pair, replaced by the sentinel (or, a flag, by the flag 4)
ArchiveRows ==
    {GoodRow}
    \cup {[GoodRow EXCEPT ![c] = Sentinel] : c \in ArchiveCols}
    \cup {[GoodRow EXCEPT ![c] = 4] : c \in FlagCols}
    \cup {[GoodRow EXCEPT ![c] = Sentinel, ![FlagOf[c]] = f] :
              c \in FlaggedCols, f \in {4, Sentinel}}

InitGet ==
    /\ archive \in UNION {[1..k -> ArchiveRows] : k \in 1..MaxRows}
    /\ gds = <<>> /\ gd = <<>> /\ surface_depth = 20
    /\ gd_dated = <<>> /\ gd_sub = <<>>
    /\ variable = <<>> /\ name = "noattr" /\ time = <<>> /\ lat = <<>>
    /\ lon = <<>> /\ time_dtype = "datetime64" /\ xda = NoFrame /\ dates = <<>>
    /\ MatcherIdle
    /\ pc = "get"

\* get_GLODAP(): read, filter, save the subset
GetGLODAP ==
    /\ pc = "get"
    /\ gds' = get_GLODAP(archive)
    /\ pc' = "saved"
    /\ UNCHANGED <<matcherInputs, xda, dates, matcherLocals, archive, gd,
                   surface_depth, gd_dated, gd_sub>>

NextGet == GetGLODAP

SpecGet == InitGet /\ [][NextGet]_vars

-----------------------------------------------------------------------------
(* GLODAP.py: process_GLODAP *)

\* a row of the subset CSV is a function of its columns, "index" being its
\* row label; a present cell v is <<v>>

\* gd.drop(gd[(gd.month==4) & (gd.day==31)].index)
drop_april_31(rows) ==
    FilterRows(rows,
               [i \in DOMAIN rows |->
                   ~(rows[i]["month"] = <<4>> /\ rows[i]["day"] = <<31>>)],
               Len(rows))

\* whether pd.to_datetime can assemble the row's year/month/day
is_calendar_date(row) ==
    /\ row["month"][1] \in 1..12
    /\ row["day"][1] \in 1..DaysInMonth(row["year"][1], row["month"][1])

\* gd['date'] = pd.to_datetime(gd[['year', 'month', 'day', 'hour']])
with_date(row) ==
    [c \in DOMAIN row \cup {"date"} |->
        IF c = "date"
        THEN <<<<row["year"][1], row["month"][1], row["day"][1], row["hour"][1]>>>>
        ELSE row[c]]

\* f(row): -180/180 to 0/360 longitude, in tenths of a degree
lon_0360(row) ==
    IF row["longitude"][1] < 0
    THEN <<row["longitude"][1] + 3600>>
    ELSE row["longitude"]

\* cb.Csys(...).pCO2 of one row: the external solver, taken to return a value
Csys_pCO2(row) == <<400>>

\* lon_0360, pressure in bar (the modelled pressures are multiples of 10),
\* pco2
derived(row) ==
    [c \in DOMAIN row \cup {"lon_0360", "pco2"} |->
        IF c = "lon_0360" THEN lon_0360(row)
        ELSE IF c = "pressure" THEN <<row["pressure"][1] \div 10>>
        ELSE IF c = "pco2" THEN Csys_pCO2(row)
        ELSE row[c]]

profile_of(row) == <<row["cruise"][1], row["station"][1], row["cast"][1]>>

LexLeq(a, b) ==
    \/ a[1] < b[1]
    \/ a[1] = b[1] /\ a[2] < b[2]
    \/ a[1] = b[1] /\ a[2] = b[2] /\ a[3] <= b[3]

RECURSIVE SortedKeys(_)
SortedKeys(S) ==
    IF S = {} THEN <<>>
    ELSE LET m == CHOOSE k \in S : \A j \in S : LexLeq(k, j)
         IN  <<m>> \o SortedKeys(S \ {m})

\* groupby(['cruise','station','cast'])['depth'].idxmin() for one profile:
\* the position of the first row of minimal depth
idxmin_depth(rows, p) ==
    LET members == {i \in DOMAIN rows : profile_of(rows[i]) = p}
        least == {i \in members :
                     \A j \in members : rows[i]["depth"][1] <= rows[j]["depth"][1]}
    IN  CHOOSE i \in least : \A j \in least : i <= j

\* gd.loc[gd.groupby([...])['depth'].idxmin()]: one row per profile, in
\* the order of the profile keys
shallowest(rows) ==
    LET keys == SortedKeys({profile_of(rows[i]) : i \in DOMAIN rows})
    IN  [n \in DOMAIN keys |-> rows[idxmin_depth(rows, keys[n])]]

\* gd.loc[:, [...]].rename(...).set_index(['time']); "index" is kept here
\* only to tell which row of gd a returned row came from
surface_columns(row) ==
    [time |-> row["date"], lat |-> row["latitude"], lon |-> row["lon_0360"],
     depth |-> row["depth"], spco2 |-> row["pco2"], index |-> row["index"]]

\* gd_sub.where(gd_sub['depth'] <= surface_depth).dropna(): a row stays when
\* its depth is within the threshold and none of its columns is missing
where_dropna(rows, sd) ==
    FilterRows(rows,
               [i \in DOMAIN rows |->
                   /\ rows[i].depth # NaN
                   /\ rows[i].depth[1] <= sd
                   /\ rows[i].lat # NaN /\ rows[i].lon # NaN
                   /\ rows[i].spco2 # NaN],
               Len(rows))

process_GLODAP(rows, sd) ==
    LET kept == drop_april_31(rows)
    IN  IF \E i \in DOMAIN kept : ~is_calendar_date(kept[i])
        THEN [err |-> "ValueError", dated |-> kept, gd_sub |-> <<>>]
        ELSE
        LET dated == [i \in DOMAIN kept |-> with_date(kept[i])]
            full == dropna(dated, RequiredCols)
            calc == [i \in DOMAIN full |-> derived(full[i])]
            top == shallowest(calc)
            sub == [i \in DOMAIN top |-> surface_columns(top[i])]
        IN  [err |-> "none", dated |-> kept, gd_sub |-> where_dropna(sub, sd)]

ProcessCols ==
    RequiredCols \cup {"index", "cruise", "station", "cast", "year", "month",
                       "day", "hour", "latitude", "longitude", "depth"}

\* a leap-day, the cruise-270 date April 31, and June 31
RowDates == {<<1984, 2, 29>>, <<1984, 4, 31>>, <<1985, 6, 31>>}
RowDepths == {5, 20, 35}
RowStations == {1, 2}
RowLatitudes == {<<100>>, NaN}
RowLongitudes == {<<-300>>, <<2000>>}
RowCarbon == {<<10>>, NaN}

CsvRow(station, date, depth, latitude, longitude, tco2) ==
    [c \in ProcessCols \ {"index"} |->
        CASE c = "cruise" -> <<270>>
          [] c = "station" -> <<station>>
          [] c = "cast" -> <<1>>
          [] c = "year" -> <<date[1]>>
          [] c = "month" -> <<date[2]>>
          [] c = "day" -> <<date[3]>>
          [] c = "hour" -> <<0>>
          [] c = "latitude" -> latitude
          [] c = "longitude" -> longitude
          [] c = "depth" -> <<depth>>
          [] c = "tco2" -> tco2
          [] OTHER -> <<10>>]

CsvRows ==
    {CsvRow(st, d, z, la, lo, c) :
        st \in RowStations, d \in RowDates, z \in RowDepths,
        la \in RowLatitudes, lo \in RowLongitudes, c \in RowCarbon}

\* pd.read_csv(fl): the rows, labelled 0, 1, ...
read_csv(rows) ==
    [i \in DOMAIN rows |->
        [c \in ProcessCols |-> IF c = "index" THEN <<i - 1>> ELSE rows[i][c]]]

InitProcess ==
    /\ \E rows \in UNION {[1..k -> CsvRows] : k \in 1..MaxRows} :
           gd = read_csv(rows)
    /\ archive = <<>> /\ gds = <<>> /\ surface_depth = 20
    /\ gd_dated = <<>> /\ gd_sub = <<>>
    /\ variable = <<>> /\ name = "noattr" /\ time = <<>> /\ lat = <<>>
    /\ lon = <<>> /\ time_dtype = "datetime64" /\ xda = NoFrame /\ dates = <<>>
    /\ MatcherIdle
    /\ pc = "process"

\* process_GLODAP(fl, surface_depth)
ProcessGLODAP ==
    /\ pc = "process"
    /\ LET r == process_GLODAP(gd, surface_depth)
       IN  /\ gd_dated' = r.dated
           /\ gd_sub' = r.gd_sub
           /\ err' = r.err
    /\ pc' = "processed"
    /\ UNCHANGED <<matcherInputs, xda, dates, tbins, ybins, xbins, tidx, yidx,
                   xidx, xds, calls, archive, gds, gd, surface_depth>>

NextProcess == ProcessGLODAP

SpecProcess == InitProcess /\ [][NextProcess]_vars

-----------------------------------------------------------------------------
(* Properties of the matcher *)

RECURSIVE SetSum(_, _)
SetSum(f, S) ==
    IF S = {} THEN 0
    ELSE LET k == CHOOSE j \in S : TRUE
         IN  f[k] + SetSum(f, S \ {k})

Increasing(s) == \A i \in 1..(Len(s) - 1) : s[i] < s[i + 1]

\* the stated preconditions: all three dimensions, strictly increasing axes,
\* datetime timestamps
StatedPreconditions ==
    /\ {"time", "lat", "lon"} \subseteq Range(xda.dims)
    /\ Increasing(xda.time) /\ Increasing(xda.lat) /\ Increasing(xda.lon)
    /\ time_dtype = "datetime64"

Returned == calls > 0 /\ err = "none"

\* the edges of one axis are as stated: N+1 of them, strictly increasing,
\* the outer ones half a gap outside, the inner ones midpoints, every axis
\* value strictly inside its bin
EdgesAsStated(dim, bins) ==
    LET n == Len(dim)
    IN  /\ Len(bins) = n + 1
        /\ Increasing(bins)
        /\ n >= 2 => /\ 2 * bins[1] = 2 * dim[1] - (dim[2] - dim[1])
                     /\ 2 * bins[n + 1] = 2 * dim[n] + (dim[n] - dim[n - 1])
        /\ \A i \in 2..n : 2 * bins[i] = dim[i - 1] + dim[i]
        /\ \A i \in 1..n : bins[i] < dim[i] /\ dim[i] < bins[i + 1]

\* C1: for every axis that passes the strictly-increasing precondition
\* (N >= 1), edge construction completes with N+1 strictly increasing edges,
\* outer edges half a gap outside, inner edges at the midpoints, and every
\* axis value strictly inside its own bin.
C1_EdgesForEveryAxis ==
    (calls > 0 /\ StatedPreconditions) =>
        /\ EdgesAsStated(xda.time, tbins)
        /\ EdgesAsStated(xda.lat, ybins)
        /\ EdgesAsStated(xda.lon, xbins)

Dist(a, b) == IF a < b THEN b - a ELSE a - b

\* on one axis: an assigned index is that of a nearest axis value, and a
\* point on an axis value gets that value's index
NearestOnAxis(dim, x, idx) ==
    \A k \in DOMAIN x :
        /\ (k \in DOMAIN idx /\ idx[k] # NaN) =>
               \A j \in DOMAIN dim :
                   Dist(x[k], dim[idx[k][1] + 1]) <= Dist(x[k], dim[j])
        /\ \A j \in DOMAIN dim :
               x[k] = dim[j] => (k \in DOMAIN idx /\ idx[k] = <<j - 1>>)

\* C2: on each axis every assigned point gets the index of an axis value at
\* minimal distance, and every point lying on an axis value gets that axis
\* value's own index.
C2_NearestBin ==
    Returned =>
        /\ NearestOnAxis(xda.time, time, tidx)
        /\ NearestOnAxis(xda.lat, lat, yidx)
        /\ NearestOnAxis(xda.lon, lon, xidx)

OutsideEdges(x, bins) == x < bins[1] \/ x > bins[Len(bins)]

CellsOf(k) ==
    {c \in Cells(xda) : tidx[k] = <<c[1]>> /\ yidx[k] = <<c[2]>> /\ xidx[k] = <<c[3]>>}

\* the values assigned to cell c
Group(c) == {k \in DOMAIN variable : c \in CellsOf(k)}

\* C3: a point is dropped exactly when one of its coordinates lies outside
\* the outermost edges of its axis; every other point, one on an outermost
\* edge included, contributes to exactly one cell.
C3_DroppedIffOutside ==
    Returned =>
        \A k \in DOMAIN variable :
            LET outside == \/ OutsideEdges(time[k], tbins)
                           \/ OutsideEdges(lat[k], ybins)
                           \/ OutsideEdges(lon[k], xbins)
            IN  /\ outside => CellsOf(k) = {}
                /\ ~outside => /\ Cardinality(CellsOf(k)) = 1
                               /\ \E c \in CellsOf(k) : At(xds[1], c) # NaN

\* the value s is the sample standard deviation (N-1 denominator) of the
\* values of the members G
IsSampleStd(s, G) ==
    LET n == Cardinality(G)
        s1 == SetSum(variable, G)
        s2 == SetSum([k \in DOMAIN variable |-> variable[k] * variable[k]], G)
    IN  /\ s # NaN
        /\ s[1] >= 0
        /\ IF s[3] = 1
           THEN s[1] * s[1] * n * (n - 1) = s[2] * s[2] * (n * s2 - s1 * s1)
           ELSE s[1] * n * (n - 1) = s[2] * (n * s2 - s1 * s1)

\* C4: in every cell of the output an empty group leaves mean and std
\* missing, a single value gives that value as mean and a missing std, two or
\* more values give their arithmetic mean and their sample standard deviation
\* (zero when they are all equal); both arrays have the frame's shape and axes.
C4_CellStatistics ==
    Returned =>
        /\ Len(xds) = 2
        /\ \A i \in 1..2 :
               /\ xds[i].dims = xda.dims /\ xds[i].time = xda.time
               /\ xds[i].lat = xda.lat /\ xds[i].lon = xda.lon
        /\ \A c \in Cells(xda) :
               LET G == Group(c)
                   n == Cardinality(G)
                   mean == At(xds[1], c)
                   std == At(xds[2], c)
               IN  /\ n = 0 => mean = NaN /\ std = NaN
                   /\ n = 1 => /\ \E k \in G : mean = <<variable[k], 1, 1>>
                               /\ std = NaN
                   /\ n >= 2 => /\ mean # NaN
                                /\ mean[3] = 1
                                /\ mean[1] * n = SetSum(variable, G) * mean[2]
                                /\ IsSampleStd(std, G)
                   /\ (n >= 2 /\ \A j, k \in G : variable[j] = variable[k])
                          => std = <<0, 1, 1>>

\* a call returned with an empty cell and a cell of two different values
C4_Witness ==
    /\ Returned
    /\ \E c \in Cells(xda) : Cardinality(Group(c)) = 0
    /\ \E c \in Cells(xda) :
           /\ Cardinality(Group(c)) >= 2
           /\ At(xds[2], c) \notin {NaN, <<0, 1, 1>>}

\* C5: a frame lacking a dimension, an axis that is not strictly increasing
\* or timestamps that are not datetimes end the call in an assertion failure
\* before any edge is computed or any point assigned, with no dataset.
C5_FailFast ==
    (calls > 0 /\ ~StatedPreconditions) =>
        /\ err = "AssertionError"
        /\ tbins = <<>> /\ ybins = <<>> /\ xbins = <<>>
        /\ tidx = <<>> /\ yidx = <<>> /\ xidx = <<>>
        /\ xds = <<>>

\* a call failed on an axis with two equal consecutive values
C5_Witness ==
    /\ calls > 0
    /\ err = "AssertionError"
    /\ {"time", "lat", "lon"} \subseteq Range(xda.dims)
    /\ time_dtype = "datetime64"
    /\ \E i \in 1..(Len(xda.lat) - 1) : xda.lat[i] = xda.lat[i + 1]

MonthIndex(ds, t) ==
    LET months == MonthsFrom(ds[1], ds[2])
    IN  CHOOSE i \in 0..(Len(months) - 1) :
            LET y == months[i + 1][1]
                m == months[i + 1][2]
            IN  /\ Timestamp(y, m, 1, 0) <= t
                /\ t <= Timestamp(y, m, DaysInMonth(y, m), 1)

\* C10: on a monthly template of at least two months an observation in a
\* covered calendar month is assigned the time index of its own month: it is
\* neither binned into a neighbouring month nor dropped.
C10_OwnCalendarMonth ==
    (dates # <<>> /\ calls > 0) =>
        /\ err = "none"
        /\ tidx = <<<<MonthIndex(dates, time[1])>>>>

\* the rows of the archive that survive, in order
Survivors(keep) == FilterRows(archive, keep, Len(archive))

\* C9: a flagged value is missing after the filter exactly where its flag
\* is not 2 (a missing flag included) or the value was missing already, and is
\* unchanged where the flag is 2; a record survives exactly when none of the
\* eight required variables is then missing.
C9_QualityFilter ==
    pc = "saved" =>
        LET after(i, c) ==
                IF c \in FlaggedCols /\ archive[i][FlagOf[c]] # GoodFlag
                THEN NaN
                ELSE IF archive[i][c] = Sentinel THEN NaN
                ELSE <<archive[i][c]>>
            keep == [i \in DOMAIN archive |->
                        \A c \in RequiredCols : after(i, c) # NaN]
            kept == Survivors(keep)
        IN  /\ Len(gds) = Len(kept)
            /\ \A j \in DOMAIN gds :
                   /\ DOMAIN gds[j] = RequiredCols
                   /\ \A c \in RequiredCols : gds[j][c] = <<kept[j][c]>>
            /\ \A i \in DOMAIN quality_filtered(archive) :
                   \A c \in RequiredCols :
                       quality_filtered(archive)[i][c] = after(i, c)

\* the filter ran on a table with a row whose flag is bad while its value is
\* present, and with a surviving row
C9_Witness ==
    /\ pc = "saved"
    /\ Len(gds) >= 1
    /\ \E i \in DOMAIN archive : \E c \in FlaggedCols :
           archive[i][FlagOf[c]] = 4 /\ archive[i][c] # Sentinel

\* C7: every record whose (year, month, day) is not a calendar date is
\* removed before the timestamp is built, so that pd.to_datetime never fails
\* on one; records with valid dates are not removed by this step.
C7_InvalidDatesDropped ==
    pc = "processed" =>
        /\ err # "ValueError"
        /\ \A i \in DOMAIN gd :
               (\E j \in DOMAIN gd_dated : gd_dated[j]["index"] = gd[i]["index"])
                   <=> is_calendar_date(gd[i])

\* the rows of the cleaned table: valid date, no required variable missing
Cleaned ==
    {i \in DOMAIN gd :
        /\ is_calendar_date(gd[i])
        /\ \A c \in RequiredCols : gd[i][c] # NaN}

MinDepth(p) ==
    CHOOSE z \in {gd[i]["depth"][1] : i \in {j \in Cleaned : profile_of(gd[j]) = p}} :
        \A i \in Cleaned : profile_of(gd[i]) = p => z <= gd[i]["depth"][1]

\* the returned rows that come from profile p
Returned_rows(p) ==
    {j \in DOMAIN gd_sub :
        \E i \in Cleaned : gd[i]["index"] = gd_sub[j].index /\ profile_of(gd[i]) = p}

\* C8: the result holds at most one record of every profile of the cleaned
\* table, one exactly when the profile's minimum depth is at most
\* surface_depth, and that record has the profile's minimum depth.
C8_SurfaceSelection ==
    (pc = "processed" /\ err = "none") =>
        \A p \in {profile_of(gd[i]) : i \in Cleaned} :
            /\ Cardinality(Returned_rows(p)) <= 1
            /\ Cardinality(Returned_rows(p)) = 1 <=> MinDepth(p) <= surface_depth
            /\ \A j \in Returned_rows(p) : gd_sub[j].depth = <<MinDepth(p)>>

====
